---------------------------- MODULE Spec2Model ----------------------------
(***************************************************************************)
(* Governance explorer: the fetcher (api.py, config.py), the transform     *)
(* layer (transforms.py) and the three views (ui/tabs_history.py,          *)
(* ui/tabs_metrics.py, ui/tabs_all_bundles.py).                            *)
(*                                                                         *)
(* Python values are modelled as follows.                                  *)
(*   - A JSON value is a record tagged by k: "absent" (the key is not in   *)
(*     the mapping), "null" (None), "list", "str", "num", "obj".           *)
(*   - A scalar field of a bundle, attachment or event is a string, with   *)
(*     ABSENT and NULL standing for a missing key and for None.            *)
(*   - A list-valued field is a record [tag, items], tag being "absent",   *)
(*     "null" or "list".                                                   *)
(*   - The outcome of a call is Ret(v) or Raise(name).                     *)
(***************************************************************************)
EXTENDS Integers, Sequences, FiniteSets, TLC

VARIABLES
    env,        \* the value of the OFFLINE environment variable
    call,       \* the last fetch call: function, HTTP response, fixture file
    fret,       \* the outcome of the last fetch call
    requests,   \* HTTP requests issued so far
    reads,      \* fixture files opened so far
    arg,        \* the record a transform function is applied to
    now,        \* the current UTC instant, in ticks
    op,         \* the transform function last applied
    out,        \* its outcome
    hpc,        \* history view: position in render()
    bundles,    \* history view: the list fetch_bundles returned
    selected,   \* history view: selected_name
    bundle_id,  \* history view: the resolved identifier
    query,      \* history view: the params of the audit-event query
    fetches,    \* history view: the fetch calls of this render, in order
    start_iso,  \* history view: the text of the "Start (UTC)" input
    end_iso,    \* history view: the text of the "End (UTC)" input
    events,     \* history view: raw.get("events", [])
    ev_choices, \* history view: the chosen event names
    proj_filter,\* history view: the chosen project names
    rows        \* history view: the rows of the table

fetchVars == <<env, call, fret, requests, reads>>
fnVars    == <<arg, now, op, out>>
histVars  == <<hpc, bundles, selected, bundle_id, query, fetches,
               start_iso, end_iso, events, ev_choices, proj_filter, rows>>
vars      == <<env, call, fret, requests, reads, arg, now, op, out,
               hpc, bundles, selected, bundle_id, query, fetches,
               start_iso, end_iso, events, ev_choices, proj_filter, rows>>

---------------------------------------------------------------------------
(* Bounds of the model. *)

MaxCalls == 2       \* fetch calls counted per behaviour
MaxStages == 2      \* stage entries of a bundle
MaxAtts == 3        \* attachments of a bundle
MaxNames == 4       \* names given to order_stages_like_humans
MaxNow == 6         \* the latest current instant, in ticks
DayTicks == 2       \* ticks per day: instants are told apart within a day
MaxTargets == 2     \* targets of an audit event
MaxChanges == 3     \* field changes of an audit event, over all its targets
MaxBundles == 2     \* bundles fetch_bundles returns to the history view
MaxMetricBundles == 3   \* bundles fetch_bundles returns to the metrics view
MaxViewStages == 5  \* stage entries of a bundle of the all-bundles view
MaxViewBundles == 2 \* bundles of a list of several in the all-bundles view
MaxEvents == 2      \* audit events fetch_audit_events returns to the history view

---------------------------------------------------------------------------
(* Python values. *)

ABSENT == "<absent>"
NULL   == "<null>"

\* d.get(key) of a scalar field: a missing key reads as None.
Get(v) == IF v = ABSENT THEN NULL ELSE v

\* Truth value of a scalar: None and "" are false.
TruthyS(v) == v \notin {ABSENT, NULL, ""}

Ret(v)   == [raised |-> FALSE, val |-> v]
Raise(e) == [raised |-> TRUE,  val |-> [k |-> "exc", s |-> e]]

JAbsent      == [k |-> "absent"]
JNull        == [k |-> "null"]
JList(items) == [k |-> "list", items |-> items]
JStr(s)      == [k |-> "str", s |-> s]
JNum(n)      == [k |-> "num", n |-> n]
JObj(d, b, e, m) ==
    [k |-> "obj", data |-> d, bundles |-> b, events |-> e, estimatedMatches |-> m]

\* Python truth value of a JSON value.
Truthy(j) ==
    CASE j.k = "absent" -> FALSE
      [] j.k = "null"   -> FALSE
      [] j.k = "list"   -> j.items # <<>>
      [] j.k = "str"    -> j.s # ""
      [] j.k = "num"    -> j.n # 0
      [] j.k = "obj"    -> \/ j.data.k # "absent"
                           \/ j.bundles.k # "absent"
                           \/ j.events.k # "absent"
                           \/ j.estimatedMatches.k # "absent"

\* a or b
Or(a, b) == IF Truthy(a) THEN a ELSE b

\* dict.get(key): the value, None when the key is missing.
DictGet(v) == IF v.k = "absent" THEN JNull ELSE v

EmptyObj == JObj(JAbsent, JAbsent, JAbsent, JAbsent)

---------------------------------------------------------------------------
(* config.py *)

\* str.lower() on the values the OFFLINE variable takes in the model.
Lower(s) ==
    CASE s = "TRUE" -> "true"
      [] s = "True" -> "true"
      [] OTHER      -> s

EnvValues == {ABSENT, "true", "True", "false", "1"}

\* A mutant of offline_mode: the value is compared as it is written.
offline_mode_CaseSensitive(e) == e = "true"

\* os.getenv("OFFLINE", "false").lower() == "true"
offline_mode(e) == Lower(IF e = ABSENT THEN "false" ELSE e) = "true"

---------------------------------------------------------------------------
(* api.py *)

\* What the remote endpoint may answer to one request.
JsonBodies ==
    {JNull, JList(<<>>), JList(<<"b1">>), JStr(""), JStr("oops"), JNum(0)}
    \cup {JObj(d, b, JAbsent, JAbsent) :
            d \in {JAbsent, JNull, JList(<<>>), JList(<<"b1">>)},
            b \in {JAbsent, JList(<<"b2">>)}}
    \cup {JObj(JAbsent, JAbsent, e, m) :
            e \in {JList(<<>>), JList(<<"e1">>)},
            m \in {JAbsent, JNum(0), JNum(1)}}

Responses ==
    {[kind |-> "exception", status |-> 0, valid |-> FALSE, json |-> JNull]}
    \cup {[kind |-> "response", status |-> s, valid |-> FALSE, json |-> JNull] :
            s \in {200, 404, 500}}
    \cup {[kind |-> "response", status |-> s, valid |-> TRUE, json |-> j] :
            s \in {404, 500}, j \in {JList(<<"b1">>),
                                     JObj(JList(<<"b1">>), JAbsent, JAbsent, JAbsent),
                                     JObj(JAbsent, JAbsent, JList(<<"e1">>), JNum(1))}}
    \cup {[kind |-> "response", status |-> 200, valid |-> TRUE, json |-> j] :
            j \in JsonBodies}

NoResponse == [kind |-> "none", status |-> 0, valid |-> FALSE, json |-> JNull]

\* What a fixture file may hold when it is opened.
Fixtures ==
    {[state |-> "missing", json |-> JNull],
     [state |-> "unreadable", json |-> JNull],
     [state |-> "malformed", json |-> JNull]}
    \cup {[state |-> "json", json |-> j] : j \in JsonBodies}

NoFixture == [state |-> "none", json |-> JNull]

\* A mutant of _get: the status code is not looked at.
get_NoStatusCheck(resp) ==
    IF resp.kind = "exception" THEN JNull
    ELSE IF ~resp.valid THEN JNull
    ELSE resp.json

\* _get: None on an exception, on a status other than 200 and when r.json()
\* raises; the decoded body otherwise.
_get(resp) ==
    IF resp.kind = "exception" THEN JNull
    ELSE IF resp.status # 200 THEN JNull
    ELSE IF ~resp.valid THEN JNull
    ELSE resp.json

\* open(path) and json.load(f) of a fixture file.
LoadFixture(fx) ==
    CASE fx.state = "missing"    -> Raise("FileNotFoundError")
      [] fx.state = "unreadable" -> Raise("PermissionError")
      [] fx.state = "malformed"  -> Raise("JSONDecodeError")
      [] OTHER                   -> Ret(fx.json)

fetch_bundles(e, resp, fx) ==
    IF offline_mode(e)
    THEN LET f == LoadFixture(fx) IN
         IF f.raised THEN f
         ELSE IF f.val.k # "obj" THEN Raise("TypeError")
         ELSE IF f.val.data.k = "absent" THEN Raise("KeyError")
         ELSE Ret(f.val.data)
    ELSE LET data == Or(_get(resp), EmptyObj) IN
         IF data.k # "obj" THEN Raise("AttributeError")
         ELSE Ret(Or(Or(DictGet(data.data), DictGet(data.bundles)), JList(<<>>)))

DefaultEvents == JObj(JAbsent, JAbsent, JList(<<>>), JNum(0))

fetch_audit_events(e, resp, fx) ==
    IF offline_mode(e)
    THEN LoadFixture(fx)
    ELSE Ret(Or(_get(resp), DefaultEvents))

NoCall == [fn |-> "none", offline |-> FALSE, resp |-> NoResponse, fx |-> NoFixture]

\* The read a call performs: one request when online, one fixture file when
\* offline, with whatever the endpoint or the file system yields.
ReadsOf(e) ==
    IF offline_mode(e)
    THEN {[resp |-> NoResponse, fx |-> f] : f \in Fixtures}
    ELSE {[resp |-> r, fx |-> NoFixture] : r \in Responses}

\* The process environment changes between calls.
SetEnv ==
    /\ \E v \in EnvValues : env' = v
    /\ UNCHANGED <<call, fret, requests, reads>>
    /\ UNCHANGED <<fnVars, histVars>>

FetchBundles ==
    /\ requests + reads < MaxCalls
    /\ \E rd \in ReadsOf(env) :
         /\ call' = [fn |-> "fetch_bundles", offline |-> offline_mode(env),
                     resp |-> rd.resp, fx |-> rd.fx]
         /\ fret' = fetch_bundles(env, rd.resp, rd.fx)
    /\ requests' = IF offline_mode(env) THEN requests ELSE requests + 1
    /\ reads' = IF offline_mode(env) THEN reads + 1 ELSE reads
    /\ UNCHANGED env
    /\ UNCHANGED <<fnVars, histVars>>

FetchAuditEvents ==
    /\ requests + reads < MaxCalls
    /\ \E rd \in ReadsOf(env) :
         /\ call' = [fn |-> "fetch_audit_events", offline |-> offline_mode(env),
                     resp |-> rd.resp, fx |-> rd.fx]
         /\ fret' = fetch_audit_events(env, rd.resp, rd.fx)
    /\ requests' = IF offline_mode(env) THEN requests ELSE requests + 1
    /\ reads' = IF offline_mode(env) THEN reads + 1 ELSE reads
    /\ UNCHANGED env
    /\ UNCHANGED <<fnVars, histVars>>

FetchInit ==
    /\ env \in EnvValues
    /\ call = NoCall
    /\ fret = Ret(JNull)
    /\ requests = 0
    /\ reads = 0

FetchIdle ==
    /\ env = ABSENT
    /\ call = NoCall
    /\ fret = Ret(JNull)
    /\ requests = 0
    /\ reads = 0

FnIdle ==
    /\ arg = ABSENT
    /\ now = 0
    /\ op = "none"
    /\ out = Ret(NULL)

\* Nothing of a render is there before its first step.
NoRender ==
    /\ bundles = <<>>
    /\ selected = NULL
    /\ bundle_id = NULL
    /\ query = [issued |-> FALSE]
    /\ fetches = <<>>
    /\ start_iso = ""
    /\ end_iso = ""
    /\ events = <<>>
    /\ ev_choices = {}
    /\ proj_filter = {}
    /\ rows = <<>>

HistIdle ==
    /\ hpc = "idle"
    /\ NoRender

FetchNext == SetEnv \/ FetchBundles \/ FetchAuditEvents

InitFetch == FetchInit /\ FnIdle /\ HistIdle

SpecFetch == InitFetch /\ [][FetchNext]_vars

---------------------------------------------------------------------------
(* Claims about the fetcher. *)

\* The transport failures of C1: an exception, a status other than 200, a
\* 200 body that is not valid JSON.
TransportFailure(resp) ==
    \/ resp.kind = "exception"
    \/ resp.kind = "response" /\ resp.status # 200
    \/ resp.kind = "response" /\ resp.status = 200 /\ ~resp.valid

\* C1: in online mode, when the request raises, the endpoint answers with a
\* status other than 200, or the 200 body is not valid JSON, fetch_bundles
\* returns the empty list and fetch_audit_events returns
\* {events: [], estimatedMatches: 0}; neither raises.
C1_TransportFailureGivesEmpty ==
    (call.fn # "none" /\ ~call.offline /\ TransportFailure(call.resp)) =>
        /\ ~fret.raised
        /\ call.fn = "fetch_bundles" => fret = Ret(JList(<<>>))
        /\ call.fn = "fetch_audit_events" => fret = Ret(DefaultEvents)

\* C1 witness: an online fetch_audit_events answered by HTTP 500 with a JSON
\* body has returned the empty result.
C1_Witness ==
    /\ call.fn = "fetch_audit_events"
    /\ ~call.offline
    /\ call.resp.kind = "response" /\ call.resp.status = 500 /\ call.resp.valid
    /\ fret = Ret(DefaultEvents)

\* C2 (as claimed): fetch_bundles and fetch_audit_events never raise, online
\* or offline, whatever the underlying read yields.
C2_FetchNeverRaises ==
    call.fn # "none" => ~fret.raised

\* The offline flag is set: OFFLINE holds "true", in any letter case.
FlagSet(e) == e \in {"true", "True", "TRUE"}

\* C17: the offline flag is evaluated on every fetch call.  A call made
\* while it is set issues no request and reads one fixture; fetch_bundles
\* then returns the value stored under "data" in the fixture and
\* fetch_audit_events returns the fixture as it is.  A call made while it
\* is not set issues exactly one request and reads no fixture.
C17_OfflineFlagPerCall ==
    [][(requests' # requests \/ reads' # reads \/ call' # call) =>
          IF FlagSet(env)
          THEN /\ requests' = requests
               /\ reads' = reads + 1
               /\ call'.offline
               /\ call'.resp = NoResponse
               /\ call'.fx.state = "json" =>
                     /\ call'.fn = "fetch_audit_events" =>
                           fret' = Ret(call'.fx.json)
                     /\ (/\ call'.fn = "fetch_bundles"
                         /\ call'.fx.json.k = "obj"
                         /\ call'.fx.json.data.k # "absent") =>
                           fret' = Ret(call'.fx.json.data)
          ELSE /\ requests' = requests + 1
               /\ reads' = reads
               /\ ~call'.offline
               /\ call'.fx = NoFixture
               /\ call'.resp # NoResponse]_vars

\* C17 witness: after a call that read a fixture the flag was cleared, and
\* fetch_bundles, called again, has issued a request and returned the data
\* of the response.
C17_Witness ==
    /\ requests = 1
    /\ reads = 1
    /\ call.fn = "fetch_bundles"
    /\ ~call.offline
    /\ ~FlagSet(env)
    /\ fret = Ret(JList(<<"b1">>))

---------------------------------------------------------------------------
(* Records: list-valued and mapping-valued fields. *)

LList(items) == [tag |-> "list", items |-> items]
LAbsent      == [tag |-> "absent", items |-> <<>>]
LNull        == [tag |-> "null", items |-> <<>>]

\* d.get(key, []): the default stands in for a missing key only.
GetList(l) == IF l.tag = "absent" THEN LList(<<>>) ELSE l

\* d.get(key) or []
GetOrEmpty(l) == IF l.tag = "list" THEN l.items ELSE <<>>

\* A mapping with a "name" key (a stage, an assignee, an added or removed user).
Dict(name) == [tag |-> "dict", name |-> name]
DAbsent    == [tag |-> "absent", name |-> ABSENT]
DNull      == [tag |-> "null", name |-> ABSENT]

\* (d.get(key) or {}).get("name")
NameOf(d) == IF d.tag = "dict" THEN Get(d.name) ELSE NULL

\* An attachment's identifier, a mapping with a "branch" key.
Ident(branch) == [tag |-> "dict", branch |-> branch]
IAbsent       == [tag |-> "absent", branch |-> ABSENT]
INull         == [tag |-> "null", branch |-> ABSENT]

\* (a.get("identifier") or {}).get("branch")
BranchOf(d) == IF d.tag = "dict" THEN Get(d.branch) ELSE NULL

SeqsUpTo(S, n) == UNION {[1..k -> S] : k \in 0..n}

---------------------------------------------------------------------------
(* transforms.py *)

\* Instants are counted in ticks, DayTicks to the day, since
\* 2022-12-31T00:00:00Z; 12:00 is one tick into its day.
\* pd.to_datetime(val, utc=True) on the strings of the model; a string
\* outside the table does not parse.
TimeStrings ==
    {"2023-01-01T00:00:00Z", "2023-01-01T12:00:00Z",
     "2023-01-02T00:00:00Z", "2023-01-03T00:00:00Z", "2023-06-01T00:00:00Z"}

to_datetime(s) ==
    CASE s = "2023-01-01T00:00:00Z" -> DayTicks
      [] s = "2023-01-01T12:00:00Z" -> DayTicks + 1
      [] s = "2023-01-02T00:00:00Z" -> 2 * DayTicks
      [] s = "2023-01-03T00:00:00Z" -> 3 * DayTicks
      [] s = "2023-06-01T00:00:00Z" -> 152 * DayTicks

\* pd.Timestamp.min, before every instant a string of the model parses to.
TsMin == 0

NoTs         == [ok |-> FALSE, aware |-> FALSE, t |-> 0]
Ts(t)        == [ok |-> TRUE, aware |-> TRUE, t |-> t]
NaiveTs(t)   == [ok |-> TRUE, aware |-> FALSE, t |-> t]

\* pd.Timestamp.utcnow(): the current instant, timezone-aware (UTC).
utcnow(n) == Ts(n)

\* Timestamp.tz_localize("UTC"): a naive timestamp becomes aware; an aware
\* one raises TypeError ("Cannot localize tz-aware Timestamp").
tz_localize(ts) ==
    IF ts.aware THEN Raise("TypeError") ELSE Ret(Ts(ts.t))

\* parse_dt: None for None and "", None when parsing raises.
parse_dt(val) ==
    IF val \in {NULL, ""} THEN NoTs
    ELSE IF val \in TimeStrings THEN Ts(to_datetime(val))
    ELSE NoTs

RECURSIVE OrderLoop(_, _, _)
OrderLoop(names, seen, acc) ==
    IF names = <<>> THEN acc
    ELSE LET n == Head(names) IN
         IF TruthyS(n) /\ n \notin seen
         THEN OrderLoop(Tail(names), seen \cup {n}, Append(acc, n))
         ELSE OrderLoop(Tail(names), seen, acc)

\* A mutant of order_stages_like_humans: names already seen are kept.
order_stages_Dups(names) == SelectSeq(names, LAMBDA n : TruthyS(n))

order_stages_like_humans(names) == OrderLoop(names, {}, <<>>)

\* a = s.get("assignee") or {}; a.get("name") or "Unassigned"
AssigneeName(s) ==
    LET nm == NameOf(s.assignee) IN
    IF TruthyS(nm) THEN nm ELSE "Unassigned"

RECURSIVE SafnLoop(_, _)
SafnLoop(items, stage_name) ==
    IF items = <<>> THEN "Unassigned"
    ELSE IF NameOf(Head(items).stage) = stage_name
         THEN AssigneeName(Head(items))
         ELSE SafnLoop(Tail(items), stage_name)

\* stage_assignee_for_name(stages, stage_name); iterating None raises.
stage_assignee_for_name(stages, stage_name) ==
    IF stages.tag = "null" THEN Raise("TypeError")
    ELSE Ret(SafnLoop(stages.items, stage_name))

RECURSIVE MaxTs(_)
MaxTs(cands) ==
    IF Len(cands) = 1 THEN Head(cands)
    ELSE LET m == MaxTs(Tail(cands)) IN
         IF Head(cands).t >= m.t THEN Head(cands) ELSE m

\* compute_last_updated: the latest of the bundle's and its attachments'
\* parsed creation instants, None (NoTs) when none parses.
compute_last_updated(bundle) ==
    LET atts == GetList(bundle.attachments) IN
    IF atts.tag = "null" THEN Raise("TypeError")
    ELSE LET cands == <<parse_dt(Get(bundle.createdAt))>> \o
                      [i \in 1..Len(atts.items) |->
                          parse_dt(Get(atts.items[i].createdAt))]
             kept == SelectSeq(cands, LAMBDA c : c.ok)
         IN  IF kept = <<>> THEN Ret(NoTs) ELSE Ret(MaxTs(kept))

RECURSIVE CsaLoop(_, _)
CsaLoop(items, target) ==
    IF items = <<>> THEN "Unassigned"
    ELSE IF NameOf(Head(items).stage) = target
         THEN AssigneeName(Head(items))
         ELSE CsaLoop(Tail(items), target)

\* A mutant of current_stage_assignee: the entries are scanned from the
\* last one.
current_stage_assignee_Last(bundle) ==
    LET target == Get(bundle.stage)
        stages == GetList(bundle.stages)
    IN  IF stages.tag = "null" THEN Raise("TypeError")
        ELSE Ret(CsaLoop([i \in 1..Len(stages.items) |->
                             stages.items[Len(stages.items) + 1 - i]], target))

\* current_stage_assignee: target is bundle.get("stage"), None when the key
\* is missing or null; an entry without a stage name has the name None.
current_stage_assignee(bundle) ==
    LET target == Get(bundle.stage)
        stages == GetList(bundle.stages)
    IN  IF stages.tag = "null" THEN Raise("TypeError")
        ELSE Ret(CsaLoop(stages.items, target))

\* days_in_current_stage at the current instant n.
days_in_current_stage(bundle, n) ==
    LET r == compute_last_updated(bundle) IN
    IF r.raised THEN r
    ELSE IF ~r.val.ok THEN Ret(-1)
    ELSE LET nw == tz_localize(utcnow(n)) IN
         IF nw.raised THEN nw
         ELSE Ret((nw.val.t - r.val.t) \div DayTicks)

\* The sort key of safe_branch_from_attachments.
key(a) ==
    LET t == parse_dt(Get(a.createdAt)) IN
    IF t.ok THEN t.t ELSE tz_localize(NaiveTs(TsMin)).val.t

\* sorted(atts, key=key, reverse=True): a stable sort, so attachments with
\* equal keys keep their order.
RECURSIVE InsertDesc(_, _)
InsertDesc(sorted, a) ==
    IF sorted = <<>> THEN <<a>>
    ELSE IF key(Head(sorted)) >= key(a)
         THEN <<Head(sorted)>> \o InsertDesc(Tail(sorted), a)
         ELSE <<a>> \o sorted

RECURSIVE SortedDesc(_)
SortedDesc(atts) ==
    IF atts = <<>> THEN <<>>
    ELSE InsertDesc(SortedDesc(SubSeq(atts, 1, Len(atts) - 1)), atts[Len(atts)])

RECURSIVE FirstBranch(_)
FirstBranch(atts) ==
    IF atts = <<>> THEN ""
    ELSE IF TruthyS(BranchOf(Head(atts).identifier))
         THEN BranchOf(Head(atts).identifier)
         ELSE FirstBranch(Tail(atts))

\* A mutant of safe_branch_from_attachments: the attachments are scanned in
\* input order, unsorted.
safe_branch_Unsorted(atts) ==
    IF atts.tag # "list" \/ atts.items = <<>> THEN Ret("")
    ELSE Ret(FirstBranch(atts.items))

\* safe_branch_from_attachments(atts); None and [] give "".
safe_branch_from_attachments(atts) ==
    IF atts.tag # "list" \/ atts.items = <<>> THEN Ret("")
    ELSE Ret(FirstBranch(SortedDesc(atts.items)))

---------------------------------------------------------------------------
(* The records the transform functions are applied to. *)

Bundle(name, id, stage, stages, createdAt, attachments) ==
    [name |-> name, id |-> id, stage |-> stage, stages |-> stages,
     createdAt |-> createdAt, attachments |-> attachments]

StageEntries ==
    {[stage |-> st, assignee |-> a] :
        st \in {DAbsent, Dict(NULL), Dict("Review"), Dict("Approve")},
        a \in {DAbsent, DNull, Dict("Alice"), Dict("Bob")}}

StageLists ==
    {LAbsent, LNull} \cup {LList(l) : l \in SeqsUpTo(StageEntries, MaxStages)}

\* Bundles that differ in their stage and stage entries.
StageBundles ==
    {Bundle("B", "id1", st, l, ABSENT, LAbsent) :
        st \in {ABSENT, NULL, "", "Review", "Approve"}, l \in StageLists}

TimedAtts ==
    {[createdAt |-> c, identifier |-> IAbsent] :
        c \in {ABSENT, "not-a-date", "2023-01-01T00:00:00Z", "2023-01-02T00:00:00Z"}}

\* Bundles that differ in their creation instants.
TimeBundles ==
    {Bundle("B", "id1", ABSENT, LAbsent, c, l) :
        c \in {ABSENT, "", "not-a-date", "2023-01-01T12:00:00Z", "2023-01-03T00:00:00Z"},
        l \in {LAbsent, LNull} \cup {LList(a) : a \in SeqsUpTo(TimedAtts, MaxAtts)}}

BranchAtts ==
    {[createdAt |-> c, identifier |-> i] :
        c \in {ABSENT, "not-a-date", "2023-01-01T00:00:00Z", "2023-01-02T00:00:00Z"},
        i \in {IAbsent, Ident(""), Ident("main"), Ident("dev")}}

\* What b.get("attachments", []) hands to safe_branch_from_attachments.
AttLists ==
    {LNull} \cup {LList(a) : a \in SeqsUpTo(BranchAtts, MaxAtts)}

NameLists == SeqsUpTo({NULL, "", "A", "B", "C"}, MaxNames)

StageNameArgs == {"", "Review", "Approve"}

Arg(kind, v) == [kind |-> kind, v |-> v, p |-> NULL]

---------------------------------------------------------------------------
(* One action per transform function: the function applied to arg. *)

Apply_parse_dt ==
    /\ arg.kind = "bundle"
    /\ op' = "parse_dt"
    /\ out' = Ret(parse_dt(Get(arg.v.createdAt)))
    /\ UNCHANGED <<arg, now, fetchVars, histVars>>

Apply_order_stages_like_humans ==
    /\ arg.kind = "names"
    /\ op = "none"
    /\ op' = "order_stages_like_humans"
    /\ out' = Ret(order_stages_like_humans(arg.v))
    /\ UNCHANGED <<arg, now, fetchVars, histVars>>

\* order_stages_like_humans applied to its own result.
Reapply_order_stages_like_humans ==
    /\ arg.kind = "names"
    /\ op = "order_stages_like_humans"
    /\ arg' = Arg("names", out.val)
    /\ op' = "order_stages_like_humans twice"
    /\ out' = Ret(order_stages_like_humans(out.val))
    /\ UNCHANGED <<now, fetchVars, histVars>>

Apply_stage_assignee_for_name ==
    /\ arg.kind = "bundle"
    /\ \E nm \in StageNameArgs :
         /\ arg' = [arg EXCEPT !.p = nm]
         /\ out' = stage_assignee_for_name(GetList(arg.v.stages), nm)
    /\ op' = "stage_assignee_for_name"
    /\ UNCHANGED <<now, fetchVars, histVars>>

Apply_compute_last_updated ==
    /\ arg.kind = "bundle"
    /\ op' = "compute_last_updated"
    /\ out' = compute_last_updated(arg.v)
    /\ UNCHANGED <<arg, now, fetchVars, histVars>>

Apply_current_stage_assignee ==
    /\ arg.kind = "bundle"
    /\ op' = "current_stage_assignee"
    /\ out' = current_stage_assignee(arg.v)
    /\ UNCHANGED <<arg, now, fetchVars, histVars>>

Apply_days_in_current_stage ==
    /\ arg.kind = "bundle"
    /\ op' = "days_in_current_stage"
    /\ out' = days_in_current_stage(arg.v, now)
    /\ UNCHANGED <<arg, now, fetchVars, histVars>>

Apply_safe_branch_from_attachments ==
    /\ arg.kind = "atts"
    /\ op' = "safe_branch_from_attachments"
    /\ out' = safe_branch_from_attachments(arg.v)
    /\ UNCHANGED <<arg, now, fetchVars, histVars>>

InitStage ==
    /\ arg \in {Arg("bundle", b) : b \in StageBundles}
    /\ now = 1
    /\ op = "none"
    /\ out = Ret(NULL)
    /\ FetchIdle /\ HistIdle

InitTime ==
    /\ arg \in {Arg("bundle", b) : b \in TimeBundles}
    /\ now \in 1..MaxNow
    /\ op = "none"
    /\ out = Ret(NULL)
    /\ FetchIdle /\ HistIdle

InitNames ==
    /\ arg \in {Arg("names", l) : l \in NameLists}
    /\ now = 1
    /\ op = "none"
    /\ out = Ret(NULL)
    /\ FetchIdle /\ HistIdle

InitBranch ==
    /\ arg \in {Arg("atts", l) : l \in AttLists}
    /\ now = 1
    /\ op = "none"
    /\ out = Ret(NULL)
    /\ FetchIdle /\ HistIdle

StageNext == Apply_current_stage_assignee \/ Apply_stage_assignee_for_name

TimeNext ==
    Apply_parse_dt \/ Apply_compute_last_updated \/ Apply_days_in_current_stage

NamesNext == Apply_order_stages_like_humans \/ Reapply_order_stages_like_humans

BranchNext == Apply_safe_branch_from_attachments

SpecStage  == InitStage /\ [][StageNext]_vars
SpecTime   == InitTime /\ [][TimeNext]_vars
SpecNames  == InitNames /\ [][NamesNext]_vars
SpecBranch == InitBranch /\ [][BranchNext]_vars

---------------------------------------------------------------------------
(* Claims about the transform layer. *)

\* The stage entries of a bundle, as a sequence (empty when absent or null).
EntriesOf(b) == GetOrEmpty(b.stages)

\* The entry carries a stage name, and the bundle's stage field is that name.
StageFieldNames(b, s) ==
    /\ b.stage \notin {ABSENT, NULL}
    /\ s.stage.tag = "dict"
    /\ s.stage.name \notin {ABSENT, NULL}
    /\ s.stage.name = b.stage

HasNamedAssignee(s) ==
    s.assignee.tag = "dict" /\ s.assignee.name \notin {ABSENT, NULL, ""}

\* C4 (as claimed): for a bundle whose stage field, absent and null included,
\* equals the stage name of no entry of its stages list,
\* current_stage_assignee returns "Unassigned"; and it returns "Unassigned"
\* when the first entry named by the stage field has no named assignee.
C4_UnmatchedStageIsUnassigned ==
    (op = "current_stage_assignee" /\ ~out.raised) =>
        LET b == arg.v
            es == EntriesOf(b)
            hits == {i \in 1..Len(es) : StageFieldNames(b, es[i])}
        IN  /\ hits = {} => out.val = "Unassigned"
            /\ (hits # {} /\ ~HasNamedAssignee(es[CHOOSE i \in hits : \A j \in hits : i <= j]))
                  => out.val = "Unassigned"

\* C5 (as claimed): days_in_current_stage returns -1 exactly when
\* compute_last_updated returns no value, and for a bundle with a defined
\* last-updated instant it returns a value other than -1.
C5_SentinelIffNoLastUpdated ==
    op = "days_in_current_stage" =>
        LET lu == compute_last_updated(arg.v) IN
        ~lu.raised =>
            /\ (~out.raised /\ out.val = -1) <=> ~lu.val.ok
            /\ lu.val.ok => (~out.raised /\ out.val # -1)

\* C6 (as claimed): for a bundle whose last-updated instant is defined,
\* days_in_current_stage returns, without raising, the whole days elapsed
\* from that instant to the current UTC instant (the floor of the
\* difference in days).
C6_WholeDaysElapsed ==
    op = "days_in_current_stage" =>
        LET lu == compute_last_updated(arg.v) IN
        (~lu.raised /\ lu.val.ok) =>
            /\ ~out.raised
            /\ out.val * DayTicks <= now - lu.val.t
            /\ now - lu.val.t < (out.val + 1) * DayTicks

\* C16: for every bundle, current_stage_assignee(bundle) equals
\* stage_assignee_for_name(the bundle's stages list, the bundle's stage
\* field), as a value or as an exception; and when an entry carries the
\* stage name the stage field holds, both are the assignee of the first such
\* entry in list order, "Unassigned" when it has no named assignee.
C16_CurrentIsNamedLookup ==
    LET b == arg.v
        viaName == stage_assignee_for_name(GetList(b.stages), Get(b.stage))
        es == EntriesOf(b)
        hits == {i \in 1..Len(es) : StageFieldNames(b, es[i])}
        first == es[CHOOSE i \in hits : \A j \in hits : i <= j]
    IN  /\ op = "current_stage_assignee" =>
              /\ out = viaName
              /\ (~out.raised /\ hits # {}) =>
                    out.val = (IF HasNamedAssignee(first)
                               THEN first.assignee.name ELSE "Unassigned")
        /\ (op = "stage_assignee_for_name" /\ arg.p = Get(b.stage)) =>
              out = current_stage_assignee(b)

\* C16 witness: both entries of the bundle carry the stage name its stage
\* field holds, their assignees differ, and the first entry's assignee has
\* been returned, as the lookup by name returns it.
C16_Witness ==
    /\ op = "current_stage_assignee"
    /\ Len(EntriesOf(arg.v)) = 2
    /\ \A i \in 1..2 :
          /\ StageFieldNames(arg.v, EntriesOf(arg.v)[i])
          /\ HasNamedAssignee(EntriesOf(arg.v)[i])
    /\ EntriesOf(arg.v)[1].assignee.name # EntriesOf(arg.v)[2].assignee.name
    /\ out = Ret(EntriesOf(arg.v)[1].assignee.name)
    /\ out = stage_assignee_for_name(GetList(arg.v.stages), Get(arg.v.stage))

\* The place of the first occurrence of n in names.
FirstIndex(names, n) ==
    CHOOSE i \in 1..Len(names) :
        names[i] = n /\ \A j \in 1..(i - 1) : names[j] # n

\* res holds each non-empty name of names once, in first-occurrence order.
IsFirstOccurrenceOrder(names, res) ==
    /\ {res[i] : i \in 1..Len(res)} =
           {names[i] : i \in 1..Len(names)} \ {NULL, ""}
    /\ \A i, j \in 1..Len(res) :
           i < j => FirstIndex(names, res[i]) < FirstIndex(names, res[j])

\* C7: order_stages_like_humans returns each non-empty name of its input
\* exactly once, in the order of first occurrence, and applied to its own
\* result it returns that result.
C7_OrderStagesIdempotent ==
    /\ op = "order_stages_like_humans" =>
           IsFirstOccurrenceOrder(arg.v, out.val)
    /\ op = "order_stages_like_humans twice" =>
           /\ out.val = arg.v
           /\ IsFirstOccurrenceOrder(arg.v, out.val)

\* C7 witness: ["A","B","A","C"] has given ["A","B","C"].
C7_Witness ==
    /\ op = "order_stages_like_humans"
    /\ arg.v = <<"A", "B", "A", "C">>
    /\ out.val = <<"A", "B", "C">>

\* The rank of an attachment's creation timestamp: its instant when it
\* parses, the earliest possible instant otherwise.
Rank(a) ==
    IF a.createdAt \in TimeStrings THEN to_datetime(a.createdAt) ELSE TsMin

CarriesBranch(a) ==
    a.identifier.tag = "dict" /\ a.identifier.branch \notin {ABSENT, NULL, ""}

\* C8: safe_branch_from_attachments returns "" for an empty list and when
\* no attachment carries a non-empty branch; otherwise it returns the
\* branch of an attachment whose creation timestamp is the latest among
\* the branch-carrying ones, wherever it stands in the list, a missing or
\* unparseable timestamp ranking earliest; so when a branch-carrying
\* attachment has a parsed timestamp, the branch returned is that of one
\* whose timestamp parsed.
C8_LatestBranch ==
    op = "safe_branch_from_attachments" =>
        LET as == GetOrEmpty(arg.v)
            cs == {i \in 1..Len(as) : CarriesBranch(as[i])}
        IN  /\ ~out.raised
            /\ cs = {} => out.val = ""
            /\ cs # {} =>
                 \E i \in cs :
                    /\ out.val = as[i].identifier.branch
                    /\ \A j \in cs : Rank(as[j]) <= Rank(as[i])
                    /\ (\E j \in cs : as[j].createdAt \in TimeStrings)
                          => as[i].createdAt \in TimeStrings

\* C8 witness: of three branch-carrying attachments the middle one is the
\* latest, the last one has no parseable timestamp, and the middle one's
\* branch has been returned.
C8_Witness ==
    /\ op = "safe_branch_from_attachments"
    /\ arg.v.tag = "list" /\ Len(arg.v.items) = 3
    /\ \A i \in 1..3 : CarriesBranch(arg.v.items[i])
    /\ Rank(arg.v.items[2]) > Rank(arg.v.items[1])
    /\ arg.v.items[3].createdAt = "not-a-date"
    /\ arg.v.items[2].identifier.branch # arg.v.items[1].identifier.branch
    /\ arg.v.items[2].identifier.branch # arg.v.items[3].identifier.branch
    /\ out.val = arg.v.items[2].identifier.branch

---------------------------------------------------------------------------
(* ui/tabs_history.py: the functions over one audit event. *)

\* x or ""
StrOrEmpty(v) == IF TruthyS(v) THEN v ELSE ""

\* removed[0].get("name") if removed and removed[0].get("name") else "Unassigned"
FirstNameOrUnassigned(l) ==
    LET items == GetOrEmpty(l) IN
    IF items # <<>> /\ TruthyS(NameOf(items[1])) THEN NameOf(items[1])
    ELSE "Unassigned"

IsDiffField(fc) == Get(fc.fieldName) \in {"stage", "state", "assignee"}

\* A mutant of DiffOf: the added assignee is reported as the one before.
DiffOf_Swapped(fc) ==
    LET field == Get(fc.fieldName) IN
    IF field \in {"stage", "state"}
    THEN <<StrOrEmpty(Get(fc.before)), StrOrEmpty(Get(fc.after)), field>>
    ELSE <<FirstNameOrUnassigned(fc.added), FirstNameOrUnassigned(fc.removed),
           "assignee">>

\* What _before_after returns from a field change named stage, state or
\* assignee.
DiffOf(fc) ==
    LET field == Get(fc.fieldName) IN
    IF field \in {"stage", "state"}
    THEN <<StrOrEmpty(Get(fc.before)), StrOrEmpty(Get(fc.after)), field>>
    ELSE <<FirstNameOrUnassigned(fc.removed), FirstNameOrUnassigned(fc.added),
           "assignee">>

NotFound   == [found |-> FALSE, res |-> Ret(<<"", "", "">>)]
Found(res) == [found |-> TRUE, res |-> res]

RECURSIVE BaChanges(_)
BaChanges(fcs) ==
    IF fcs = <<>> THEN NotFound
    ELSE IF IsDiffField(Head(fcs)) THEN Found(Ret(DiffOf(Head(fcs))))
    ELSE BaChanges(Tail(fcs))

RECURSIVE BaTargets(_)
BaTargets(ts) ==
    IF ts = <<>> THEN Ret(<<"", "", "">>)
    ELSE LET fcl == GetList(Head(ts).fieldChanges) IN
         IF fcl.tag = "null" THEN Raise("TypeError")
         ELSE LET r == BaChanges(fcl.items) IN
              IF r.found THEN r.res ELSE BaTargets(Tail(ts))

_before_after(e) ==
    LET tl == GetList(e.targets) IN
    IF tl.tag = "null" THEN Raise("TypeError") ELSE BaTargets(tl.items)

RECURSIVE PsnAffecting(_)
PsnAffecting(as) ==
    IF as = <<>> THEN NULL
    ELSE IF Get(Head(as).entityType) = "governancePolicyStage"
            /\ TruthyS(Get(Head(as).name))
         THEN Head(as).name
         ELSE PsnAffecting(Tail(as))

RECURSIVE PsnChanges(_)
PsnChanges(fcs) ==
    IF fcs = <<>> THEN NULL
    ELSE IF Get(Head(fcs).fieldName) = "stage"
         THEN StrOrEmpty(Get(Head(fcs).before)) \o " → "
                 \o StrOrEmpty(Get(Head(fcs).after))
         ELSE PsnChanges(Tail(fcs))

RECURSIVE PsnTargets(_)
PsnTargets(ts) ==
    IF ts = <<>> THEN Ret("")
    ELSE LET fcl == GetList(Head(ts).fieldChanges) IN
         IF fcl.tag = "null" THEN Raise("TypeError")
         ELSE LET r == PsnChanges(fcl.items) IN
              IF r # NULL THEN Ret(r) ELSE PsnTargets(Tail(ts))

\* A mutant of _pull_stage_name: a stage field change is preferred to an
\* affecting entity.
pull_stage_name_ChangesFirst(e) ==
    LET al == GetList(e.affecting)
        tl == GetList(e.targets)
    IN  IF al.tag = "null" \/ tl.tag = "null" THEN Raise("TypeError")
        ELSE LET c == PsnTargets(tl.items)
                 a == PsnAffecting(al.items)
             IN  IF c.raised \/ c.val # "" THEN c
                 ELSE IF a # NULL THEN Ret(a) ELSE Ret("")

_pull_stage_name(e) ==
    LET al == GetList(e.affecting)
        tl == GetList(e.targets)
    IN  IF al.tag = "null" THEN Raise("TypeError")
        ELSE LET a == PsnAffecting(al.items) IN
             IF a # NULL THEN Ret(a)
             ELSE IF tl.tag = "null" THEN Raise("TypeError")
             ELSE PsnTargets(tl.items)

---------------------------------------------------------------------------
(* Audit events. *)

Fc(fieldName, before, after, added, removed) ==
    [fieldName |-> fieldName, before |-> before, after |-> after,
     added |-> added, removed |-> removed]

FieldChanges ==
    {Fc("other", "x", "y", LAbsent, LAbsent),
     Fc("stage", NULL, "Review", LAbsent, LAbsent),
     Fc("state", "Active", ABSENT, LAbsent, LAbsent),
     Fc("assignee", ABSENT, ABSENT, LList(<<Dict("Alice")>>), LList(<<>>)),
     Fc("assignee", ABSENT, ABSENT, LNull, LList(<<Dict("Bob"), Dict("Carol")>>)),
     Fc("assignee", ABSENT, ABSENT, LList(<<Dict(NULL), Dict("Dan")>>), LAbsent)}

Affectings ==
    {LAbsent,
     LList(<<[entityType |-> "governancePolicyStage", name |-> "Approve"]>>),
     LList(<<[entityType |-> "project", name |-> "P"],
             [entityType |-> "governancePolicyStage", name |-> NULL]>>)}

RECURSIVE Sum(_)
Sum(z) == IF z = <<>> THEN 0 ELSE Head(z) + Sum(Tail(z))

\* The field changes flat, dealt to targets of the sizes z, in order.
TargetsOf(flat, z) ==
    IF z = <<>> THEN LAbsent
    ELSE LList([i \in 1..Len(z) |->
            [fieldChanges |->
                IF z[i] = 0 THEN LAbsent
                ELSE LList(SubSeq(flat, Sum(SubSeq(z, 1, i - 1)) + 1,
                                        Sum(SubSeq(z, 1, i))))]])

\* The ways to deal field changes to targets: the field changes in order,
\* and the number of them each target takes.
EventShapes ==
    {p \in SeqsUpTo(FieldChanges, MaxChanges) \X SeqsUpTo(0..MaxChanges, MaxTargets) :
        Sum(p[2]) = Len(p[1])}

\* Events of at most MaxTargets targets and MaxChanges field changes.
Events ==
    {[targets |-> TargetsOf(p[1], p[2]), affecting |-> a] :
        p \in EventShapes, a \in Affectings}

Apply__before_after ==
    /\ arg.kind = "event"
    /\ op' = "_before_after"
    /\ out' = _before_after(arg.v)
    /\ UNCHANGED <<arg, now, fetchVars, histVars>>

Apply__pull_stage_name ==
    /\ arg.kind = "event"
    /\ op' = "_pull_stage_name"
    /\ out' = _pull_stage_name(arg.v)
    /\ UNCHANGED <<arg, now, fetchVars, histVars>>

InitEvent ==
    /\ arg \in {Arg("event", e) : e \in Events}
    /\ now = 1
    /\ op = "none"
    /\ out = Ret(NULL)
    /\ FetchIdle /\ HistIdle

EventNext == Apply__before_after \/ Apply__pull_stage_name

SpecEvent == InitEvent /\ [][EventNext]_vars

\* Every field change of the event, targets in order, each target's field
\* changes in order.
RECURSIVE AllChanges(_)
AllChanges(ts) ==
    IF ts = <<>> THEN <<>>
    ELSE GetOrEmpty(Head(ts).fieldChanges) \o AllChanges(Tail(ts))

NamedDiffField(fc) == fc.fieldName \in {"stage", "state", "assignee"}

FirstNamed(l) ==
    IF l.tag = "list" /\ l.items # <<>> /\ l.items[1].tag = "dict"
       /\ l.items[1].name \notin {ABSENT, NULL, ""}
    THEN l.items[1].name ELSE "Unassigned"

\* C9: _before_after answers from the first field change named stage, state
\* or assignee, targets in order and each target's field changes in order:
\* (before or "", after or "", field) for stage and state, (first removed
\* name or "Unassigned", first added name or "Unassigned", "assignee") for
\* assignee; it returns ("", "", "") exactly when no field change has one
\* of the three names.
C9_BeforeAfterFirstChange ==
    op = "_before_after" =>
        LET fcs == AllChanges(GetOrEmpty(arg.v.targets))
            hits == {i \in 1..Len(fcs) : NamedDiffField(fcs[i])}
        IN  /\ ~out.raised
            /\ (out.val = <<"", "", "">>) <=> (hits = {})
            /\ hits # {} =>
                 LET fc == fcs[CHOOSE i \in hits : \A j \in hits : i <= j] IN
                 IF fc.fieldName = "assignee"
                 THEN out.val = <<FirstNamed(fc.removed), FirstNamed(fc.added),
                                  "assignee">>
                 ELSE out.val =
                        <<IF fc.before \in {ABSENT, NULL} THEN "" ELSE fc.before,
                          IF fc.after \in {ABSENT, NULL} THEN "" ELSE fc.after,
                          fc.fieldName>>

\* C9 witness: the event's only field change is {fieldName: assignee,
\* removed: [], added: [{name: Alice}]} and ("Unassigned", "Alice",
\* "assignee") has been returned.
C9_Witness ==
    /\ op = "_before_after"
    /\ AllChanges(GetOrEmpty(arg.v.targets)) =
          <<Fc("assignee", ABSENT, ABSENT, LList(<<Dict("Alice")>>), LList(<<>>))>>
    /\ out.val = <<"Unassigned", "Alice", "assignee">>

\* An affecting entity of type governancePolicyStage with a non-empty name.
NamedStageEntity(a) ==
    a.entityType = "governancePolicyStage" /\ a.name \notin {ABSENT, NULL, ""}

\* C15: _pull_stage_name returns the name of the first affecting entity of
\* type governancePolicyStage that has a non-empty name, whenever the event
\* has one, even if the event also carries a stage field change; otherwise
\* "<before> → <after>" of the first field change named stage, an absent
\* side being empty; otherwise "".
C15_StageNamePrefersAffecting ==
    op = "_pull_stage_name" =>
        LET as == GetOrEmpty(arg.v.affecting)
            named == {i \in 1..Len(as) : NamedStageEntity(as[i])}
            fcs == AllChanges(GetOrEmpty(arg.v.targets))
            hits == {i \in 1..Len(fcs) : fcs[i].fieldName = "stage"}
        IN  /\ ~out.raised
            /\ named # {} =>
                  out.val = as[CHOOSE i \in named : \A j \in named : i <= j].name
            /\ (named = {} /\ hits # {}) =>
                  LET fc == fcs[CHOOSE i \in hits : \A j \in hits : i <= j] IN
                  out.val =
                     (IF fc.before \in {ABSENT, NULL} THEN "" ELSE fc.before)
                     \o " → " \o
                     (IF fc.after \in {ABSENT, NULL} THEN "" ELSE fc.after)
            /\ (named = {} /\ hits = {}) => out.val = ""

\* C15 witness: the event has a stage field change (none before, Review
\* after) and the affecting stage entity "Approve", and "Approve" has been
\* returned.
C15_Witness ==
    /\ op = "_pull_stage_name"
    /\ \E i \in 1..Len(AllChanges(GetOrEmpty(arg.v.targets))) :
          AllChanges(GetOrEmpty(arg.v.targets))[i].fieldName = "stage"
    /\ \E i \in 1..Len(GetOrEmpty(arg.v.affecting)) :
          NamedStageEntity(GetOrEmpty(arg.v.affecting)[i])
    /\ out.val = "Approve"

---------------------------------------------------------------------------
(* ui/tabs_history.py: render(). *)

\* The sort key of the candidates: parse_dt(createdAt) or Timestamp.min.
cand_key(b) ==
    LET t == parse_dt(Get(b.createdAt)) IN
    IF t.ok THEN t.t ELSE tz_localize(NaiveTs(TsMin)).val.t

RECURSIVE CandInsertDesc(_, _)
CandInsertDesc(sorted, b) ==
    IF sorted = <<>> THEN <<b>>
    ELSE IF cand_key(Head(sorted)) >= cand_key(b)
         THEN <<Head(sorted)>> \o CandInsertDesc(Tail(sorted), b)
         ELSE <<b>> \o sorted

\* A mutant of CandSorted: the candidates are left in fetch order.
CandSorted_Unsorted(cand) == cand

\* cand.sort(key=..., reverse=True): stable, equal keys keep fetch order.
RECURSIVE CandSorted(_)
CandSorted(cand) ==
    IF cand = <<>> THEN <<>>
    ELSE CandInsertDesc(CandSorted(SubSeq(cand, 1, Len(cand) - 1)),
                        cand[Len(cand)])

\* A mutant of ResolveId: the first candidate that has an identifier.
ResolveId_FirstWithId(bs, name) ==
    LET cand == CandSorted(SelectSeq(bs, LAMBDA b : Get(b.name) = name))
        withId == SelectSeq(cand, LAMBDA b : TruthyS(Get(b.id)))
    IN  IF withId = <<>> THEN NULL ELSE Get(withId[1].id)

\* cand[0].get("id") if cand else None, cand being the bundles of the
\* selected name, latest creation first.
ResolveId(bs, name) ==
    LET cand == CandSorted(SelectSeq(bs, LAMBDA b : Get(b.name) = name)) IN
    IF cand = <<>> THEN NULL ELSE Get(cand[1].id)

\* The texts of the date inputs in the model.
DateTexts ==
    {"", "2023/01/15", "2023-01-15", "2023-01-15T08:00:00Z", "garbage"}

\* pd.to_datetime(text) returns (TRUE) or raises (FALSE).
DateParses(text) ==
    text \in {"2023/01/15", "2023-01-15", "2023-01-15T08:00:00Z"}

\* "T" in text
HasT(text) == text \in {"2023-01-15T08:00:00Z"}

\* The bound sent for a date text: none for an empty or unparseable text,
\* the text itself when it holds a "T", the text with the suffix otherwise.
BoundOf(text, suffix) ==
    IF text = "" THEN ABSENT
    ELSE IF ~DateParses(text) THEN ABSENT
    ELSE IF HasT(text) THEN text
    ELSE text \o suffix

QueryLimit == 500

Params(id, start, end) ==
    [issued |-> TRUE, targetType |-> "governanceBundle", targetId |-> id,
     limit |-> QueryLimit, sort |-> "-timestamp",
     since |-> BoundOf(start, "T00:00:00Z"),
     until |-> BoundOf(end, "T23:59:59Z")]

\* b.get(key): a key the record does not have reads as None.
Field(r, k) == IF k \in DOMAIN r THEN Get(r[k]) ELSE NULL

\* The bundle names offered by the select box.
NamesOf(bs) == {bs[i].name : i \in 1..Len(bs)} \ {ABSENT, NULL, ""}

\* The project names offered by the project filter.
ProjectsOf(bs) ==
    {Field(bs[i], "projectName") : i \in 1..Len(bs)} \ {ABSENT, NULL, ""}

\* What tells the bundles of the history view apart.
BundleFacts ==
    [name : {ABSENT, "A", "B"}, hasId : BOOLEAN,
     createdAt : {ABSENT, "not-a-date", "2023-01-01T00:00:00Z",
                  "2023-06-01T00:00:00Z"}]

\* The bundle lists fetch_bundles returns in the model; the bundle at place
\* i has the identifier "id<i>" or none.
BundlesOf(f) ==
    [i \in 1..Len(f) |->
        Bundle(f[i].name, IF f[i].hasId THEN "id" \o ToString(i) ELSE ABSENT,
               ABSENT, LAbsent, f[i].createdAt, LAbsent)]

HistoryBundleLists == {BundlesOf(f) : f \in SeqsUpTo(BundleFacts, MaxBundles)}

\* A bundle of a project.
ProjectBundle(name, id, project) ==
    [name |-> name, id |-> id, stage |-> ABSENT, stages |-> LAbsent,
     createdAt |-> "2023-01-01T00:00:00Z", attachments |-> LAbsent,
     projectName |-> project]

\* Bundle lists with project names, and one without.
ProjectBundleLists ==
    {<<Bundle("A", "id1", ABSENT, LAbsent, ABSENT, LAbsent)>>,
     <<ProjectBundle("A", "id1", "P1")>>,
     <<ProjectBundle("A", "id1", "P1"), ProjectBundle("B", "id2", "P2")>>}

\* bundles = fetch_bundles(limit=1000), returning one of lists or raising.
Fetched(lists) ==
    /\ hpc = "start"
    /\ fetches' = Append(fetches, "fetch_bundles")
    /\ \/ /\ bundles' \in lists
          /\ hpc' = "fetched"
       \/ /\ bundles' = <<>>
          /\ hpc' = "raised"
    /\ UNCHANGED <<selected, bundle_id, query, start_iso, end_iso, events,
                   ev_choices, proj_filter, rows, fetchVars, fnVars>>

\* The select box: the first name by default, any offered name by choice,
\* None when there is no name.
Render_select ==
    /\ hpc = "fetched"
    /\ IF NamesOf(bundles) = {} THEN selected' = NULL
       ELSE selected' \in NamesOf(bundles)
    /\ hpc' = "selected"
    /\ UNCHANGED <<bundles, bundle_id, query, fetches, start_iso, end_iso,
                   events, ev_choices, proj_filter, rows, fetchVars, fnVars>>

\* From the date inputs, holding two of texts, to the call of
\* fetch_audit_events.
Resolved(texts) ==
    /\ hpc = "selected"
    /\ start_iso' \in texts
    /\ end_iso' \in texts
    /\ IF ~TruthyS(selected)
       THEN /\ hpc' = "info"
            /\ UNCHANGED <<bundle_id, query, fetches>>
       ELSE LET id == ResolveId(bundles, selected) IN
            /\ bundle_id' = id
            /\ IF ~TruthyS(id)
               THEN hpc' = "warning" /\ UNCHANGED <<query, fetches>>
               ELSE /\ hpc' = "queried"
                    /\ query' = Params(id, start_iso', end_iso')
                    /\ fetches' = Append(fetches, "fetch_audit_events")
    /\ UNCHANGED <<bundles, selected, events, ev_choices, proj_filter, rows,
                   fetchVars, fnVars>>

\* Timestamp.isoformat().replace("+00:00", "Z") of an instant a string of
\* the model parses to.
isoformat(ts) ==
    IF ts.ok THEN CHOOSE str \in TimeStrings : to_datetime(str) = ts.t ELSE ""

EVENT_CATALOG ==
    {"Create Governance Bundle",
     "Change Governance Bundle Stage",
     "Change Governance Bundle State",
     "Create Governance Bundle Stage Approval Request",
     "Accept Governance Bundle Stage Approval Request",
     "Update Governance Bundle Stage Assignee",
     "Add Policy to Governance Bundle",
     "Deactivate Policy in Governance Bundle",
     "Add Attachment to Bundle",
     "Remove Attachment from Bundle",
     "Submit Results in a Bundle",
     "Copy Governance Bundle results from another Bundle"}

\* The "action" mapping of an event, with an "eventName" key.
Action(eventName) == [tag |-> "dict", eventName |-> eventName]

\* (e.get("action") or {}).get("eventName")
EventNameOf(e) == IF e.action.tag = "dict" THEN Get(e.action.eventName) ELSE NULL

\* (e.get("in") or {}).get("name")
ProjectNameOf(e) == NameOf(e.in)

\* A mutant of keep: an event passes when either filter lets it pass.
keep_Either(e, evs, projs) ==
    \/ evs = {} /\ projs = {}
    \/ evs # {} /\ EventNameOf(e) \in evs
    \/ projs # {} /\ ProjectNameOf(e) \in projs

\* keep(e) under the chosen event names and project names.
keep(e, evs, projs) ==
    /\ evs # {} => EventNameOf(e) \in evs
    /\ projs # {} => ProjectNameOf(e) \in projs

\* An entity of a target: a mapping with "entityType" and "name".
Entity(entityType, name) ==
    [tag |-> "dict", entityType |-> entityType, name |-> name]

\* The loop of lines 93-97: the name of the last governanceBundle entity
\* among the targets that has one.
RECURSIVE bundle_nm(_, _)
bundle_nm(ts, acc) ==
    IF ts = <<>> THEN acc
    ELSE LET ent == IF "entity" \in DOMAIN Head(ts) THEN Head(ts).entity
                    ELSE DAbsent
         IN  IF ent.tag = "dict" /\ Get(ent.entityType) = "governanceBundle"
             THEN bundle_nm(Tail(ts),
                            IF TruthyS(Get(ent.name)) THEN ent.name ELSE acc)
             ELSE bundle_nm(Tail(ts), acc)

\* The row of one event; the raw field changes, a dump of the event's own
\* lists, are left out.
EventRow(e) ==
    LET ba == _before_after(e)
        tl == GetList(e.targets)
        st == _pull_stage_name(e)
    IN  IF ba.raised THEN ba
        ELSE IF tl.tag = "null" THEN Raise("TypeError")
        ELSE IF st.raised THEN st
        ELSE Ret([time |-> isoformat(parse_dt(Get(e.timestamp))),
                  action |-> StrOrEmpty(EventNameOf(e)),
                  stage |-> st.val,
                  user |-> StrOrEmpty(NameOf(e.actor)),
                  project |-> StrOrEmpty(ProjectNameOf(e)),
                  bundle |-> bundle_nm(tl.items, ""),
                  before |-> ba.val[1], after |-> ba.val[2],
                  change |-> ba.val[3]])

RECURSIVE EventRows(_, _)
EventRows(es, acc) ==
    IF es = <<>> THEN Ret(acc)
    ELSE LET r == EventRow(Head(es)) IN
         IF r.raised THEN r ELSE EventRows(Tail(es), Append(acc, r.val))

\* The instants of the events of a list, the newest first.
EventTimes ==
    <<"2023-06-01T00:00:00Z", "2023-01-03T00:00:00Z", "2023-01-02T00:00:00Z",
      "2023-01-01T12:00:00Z", "2023-01-01T00:00:00Z">>

\* What tells the events of the history view apart.
EventFacts ==
    [eventName : {ABSENT, "Create Governance Bundle",
                  "Change Governance Bundle Stage", "Login"},
     project : {ABSENT, "P1", "P2"}]

\* The event at place i: its actor is "u<i>"; a stage change carries the
\* field change on its bundle.
EventOf(f, i) ==
    [action |-> IF f.eventName = ABSENT THEN DAbsent ELSE Action(f.eventName),
     in |-> IF f.project = ABSENT THEN DNull ELSE Dict(f.project),
     actor |-> Dict("u" \o ToString(i)),
     timestamp |-> EventTimes[i],
     targets |-> LList(<<[entity |-> Entity("governanceBundle", "A"),
                          fieldChanges |->
                             IF f.eventName = "Change Governance Bundle Stage"
                             THEN LList(<<Fc("stage", "Plan", "Review",
                                             LAbsent, LAbsent)>>)
                             ELSE LAbsent]>>),
     affecting |-> LAbsent]

\* The event lists of up to n events.
EventLists(n) ==
    {[i \in 1..Len(fs) |-> EventOf(fs[i], i)] : fs \in SeqsUpTo(EventFacts, n)}

\* The event names chosen from in the model.
OfferedEvents ==
    {"Create Governance Bundle", "Change Governance Bundle Stage"}

\* From the return of fetch_audit_events, with one of lists under "events"
\* or raising, to the table; the event filter holds one of choices.
Listed(lists, choices) ==
    /\ hpc = "queried"
    /\ \/ /\ events' \in lists
          /\ ev_choices' \in choices
          /\ proj_filter' \in SUBSET ProjectsOf(bundles)
          /\ LET filtered == SelectSeq(events',
                                LAMBDA e : keep(e, ev_choices', proj_filter'))
                 r == EventRows(filtered, <<>>)
             IN  IF r.raised THEN hpc' = "raised" /\ rows' = <<>>
                 ELSE /\ rows' = r.val
                      /\ hpc' = IF r.val = <<>> THEN "none found" ELSE "table"
       \/ /\ hpc' = "raised"
          /\ UNCHANGED <<events, ev_choices, proj_filter, rows>>
    /\ UNCHANGED <<bundles, selected, bundle_id, query, fetches, start_iso,
                   end_iso, fetchVars, fnVars>>

\* Streamlit runs render() again; nothing is kept from the last run.
Render_rerun ==
    /\ hpc \in {"info", "warning", "raised", "none found", "table"}
    /\ hpc' = "start"
    /\ bundles' = <<>>
    /\ selected' = NULL
    /\ bundle_id' = NULL
    /\ query' = [issued |-> FALSE]
    /\ fetches' = <<>>
    /\ start_iso' = ""
    /\ end_iso' = ""
    /\ events' = <<>>
    /\ ev_choices' = {}
    /\ proj_filter' = {}
    /\ rows' = <<>>
    /\ UNCHANGED <<fetchVars, fnVars>>

InitHistory ==
    /\ hpc = "start"
    /\ NoRender
    /\ FetchIdle /\ FnIdle

\* Two date texts and two event lists, for the renders that vary something
\* else.
FewDateTexts == {"", "2023/01/15"}

FewEventLists ==
    {<<>>, <<EventOf([eventName |-> "Create Governance Bundle",
                      project |-> ABSENT], 1)>>}

\* render() over the bundle lists of the model.
Render_fetch_bundles == Fetched(HistoryBundleLists)

Render_resolve == Resolved(FewDateTexts)

Render_rows == Listed(FewEventLists, {{}})

HistoryNext ==
    \/ Render_fetch_bundles
    \/ Render_select
    \/ Render_resolve
    \/ Render_rows
    \/ Render_rerun

SpecHistory == InitHistory /\ [][HistoryNext]_vars

\* render() over the date texts of the model.
Dates_fetch_bundles == Fetched(ProjectBundleLists)

Dates_resolve == Resolved(DateTexts)

Dates_rows == Listed(FewEventLists, {{}})

DatesNext ==
    \/ Dates_fetch_bundles
    \/ Render_select
    \/ Dates_resolve
    \/ Dates_rows
    \/ Render_rerun

SpecDates == InitHistory /\ [][DatesNext]_vars

\* render() over the event lists and the filter choices of the model.
Rows_fetch_bundles == Fetched(ProjectBundleLists)

Rows_resolve == Resolved({""})

\* The event lists fetch_audit_events returns in the model.
HistoryEventLists == EventLists(MaxEvents)

Rows_rows == Listed(HistoryEventLists, SUBSET OfferedEvents)

RowsNext ==
    \/ Rows_fetch_bundles
    \/ Render_select
    \/ Rows_resolve
    \/ Rows_rows
    \/ Render_rerun

SpecRows == InitHistory /\ [][RowsNext]_vars

\* The rank of a bundle's creation timestamp: its instant when it parses,
\* the minimum instant otherwise.
CreatedRank(b) ==
    IF b.createdAt \in TimeStrings THEN to_datetime(b.createdAt) ELSE TsMin

\* C10: the history view resolves the selected name to the identifier of a
\* bundle whose creation timestamp is the most recent among the fetched
\* bundles of that name, a missing or unparseable timestamp ranking as the
\* minimum instant, and the audit-event query has targetType
\* governanceBundle and that identifier as targetId.
C10_ResolvesLatestOfName ==
    hpc \in {"queried", "warning"} =>
        LET same == {i \in 1..Len(bundles) : bundles[i].name = selected} IN
        /\ \E i \in same :
              /\ \A j \in same : CreatedRank(bundles[j]) <= CreatedRank(bundles[i])
              /\ bundle_id = Get(bundles[i].id)
        /\ hpc = "queried" =>
              /\ query.issued
              /\ query.targetType = "governanceBundle"
              /\ query.targetId = bundle_id
              /\ bundle_id \notin {ABSENT, NULL, ""}

\* C10 witness: of two bundles named "B" created 2023-01-01 and 2023-06-01,
\* in that order, the query is scoped to the second one's identifier.
C10_Witness ==
    /\ hpc = "queried"
    /\ Len(bundles) = 2
    /\ bundles[1].name = "B" /\ bundles[2].name = "B"
    /\ bundles[1].createdAt = "2023-01-01T00:00:00Z"
    /\ bundles[2].createdAt = "2023-06-01T00:00:00Z"
    /\ bundles[1].id = "id1" /\ bundles[2].id = "id2"
    /\ selected = "B"
    /\ query.targetId = "id2"

\* The event passes the filters: its action name is a chosen one when event
\* names are chosen, its project name is a chosen one when projects are.
Passes(e) ==
    /\ ev_choices # {} =>
          /\ e.action.tag = "dict"
          /\ e.action.eventName \in ev_choices
    /\ proj_filter # {} =>
          /\ e.in.tag = "dict"
          /\ e.in.name \in proj_filter

\* C13: the rows of the history view correspond one to one, in the order
\* of the fetched events, to exactly the events whose action name is one of
\* the chosen event names when at least one is chosen, and whose project
\* name is one of the chosen projects when at least one is chosen; an empty
\* choice removes no event.
C13_RowsAreFilteredEvents ==
    hpc \in {"table", "none found"} =>
        LET kept == {i \in 1..Len(events) : Passes(events[i])}
            place(k) == CHOOSE i \in kept :
                            Cardinality({j \in kept : j < i}) = k - 1
        IN  /\ Len(rows) = Cardinality(kept)
            /\ \A k \in 1..Len(rows) :
                  /\ rows[k].user = events[place(k)].actor.name
                  /\ rows[k].time = events[place(k)].timestamp
                  /\ rows[k].action =
                        (IF events[place(k)].action.tag = "dict"
                         THEN events[place(k)].action.eventName ELSE "")
                  /\ rows[k].project =
                        (IF events[place(k)].in.tag = "dict"
                         THEN events[place(k)].in.name ELSE "")
            /\ (ev_choices = {} /\ proj_filter = {}) => Len(rows) = Len(events)
            /\ hpc = "table" <=> rows # <<>>

\* C13 witness: of two fetched events, the first is a stage change of
\* project P2 and the second a stage change of project P1; stage changes
\* and P1 are chosen, and the only row is that of the second event.
C13_Witness ==
    /\ hpc = "table"
    /\ Len(events) = 2
    /\ events[1].action = Action("Change Governance Bundle Stage")
    /\ events[2].action = Action("Change Governance Bundle Stage")
    /\ events[1].in = Dict("P2")
    /\ events[2].in = Dict("P1")
    /\ ev_choices = {"Change Governance Bundle Stage"}
    /\ proj_filter = {"P1"}
    /\ Len(rows) = 1
    /\ rows[1].user = "u2"
    /\ rows[1].stage = "Plan → Review"

\* The calendar day a date text of the model denotes, as ISO-8601 writes it.
DayOf(text) ==
    CASE text = "2023/01/15" -> "2023-01-15"
      [] text = "2023-01-15" -> "2023-01-15"

\* A date text without a time part.
DayText(text) == text \in {"2023/01/15", "2023-01-15"}

\* C14 (as claimed): in the history view a bound is sent if and only if its
\* text is non-empty and parses as a date; a text with a time part ("T") is
\* sent unchanged; and a start date entered as YYYY/MM/DD is sent as the
\* ISO-8601 instant 00:00:00Z of that day under "since", an end date as the
\* ISO-8601 instant 23:59:59Z of that day under "until".
C14_DateBoundsIso8601 ==
    query.issued =>
        /\ query.since # ABSENT <=> (start_iso # "" /\ DateParses(start_iso))
        /\ query.until # ABSENT <=> (end_iso # "" /\ DateParses(end_iso))
        /\ HasT(start_iso) => query.since = start_iso
        /\ HasT(end_iso) => query.until = end_iso
        /\ DayText(start_iso) => query.since = DayOf(start_iso) \o "T00:00:00Z"
        /\ DayText(end_iso) => query.until = DayOf(end_iso) \o "T23:59:59Z"

\* The fetched bundles of the selected name whose creation is the latest.
LatestOfName ==
    {i \in 1..Len(bundles) :
        /\ bundles[i].name = selected
        /\ \A j \in 1..Len(bundles) :
              bundles[j].name = selected =>
                 CreatedRank(bundles[j]) <= CreatedRank(bundles[i])}

HasId(b) == b.id \notin {ABSENT, NULL, ""}

\* C18: in every render of the history view the bundle fetch comes first
\* and at most one audit-event query follows it; the query is issued only
\* if a bundle name is selected and the most recently created bundle of that
\* name has a non-empty identifier; and when that bundle has no identifier
\* the view stops with a warning and issues no query, even if an older
\* bundle of the name has an identifier.
C18_FetchThenAtMostOneQuery ==
    /\ fetches \in {<<>>, <<"fetch_bundles">>,
                    <<"fetch_bundles", "fetch_audit_events">>}
    /\ hpc # "start" => fetches # <<>>
    /\ query.issued <=> Len(fetches) = 2
    /\ query.issued =>
          /\ selected \notin {ABSENT, NULL, ""}
          /\ \E i \in LatestOfName :
                HasId(bundles[i]) /\ query.targetId = bundles[i].id
    /\ (/\ hpc \in {"warning", "queried", "table", "none found"}
        /\ \A i \in LatestOfName : ~HasId(bundles[i])) =>
          /\ hpc = "warning"
          /\ ~query.issued
    /\ hpc = "warning" => fetches = <<"fetch_bundles">>
    /\ hpc = "info" => fetches = <<"fetch_bundles">>

\* C18 witness: of two bundles named "A" the one created later has no
\* identifier and the older one has; the view has stopped with the warning
\* after the bundle fetch alone.
C18_Witness ==
    /\ hpc = "warning"
    /\ Len(bundles) = 2
    /\ selected = "A"
    /\ bundles[1].name = "A" /\ bundles[2].name = "A"
    /\ HasId(bundles[1]) /\ ~HasId(bundles[2])
    /\ CreatedRank(bundles[1]) < CreatedRank(bundles[2])
    /\ fetches = <<"fetch_bundles">>
    /\ ~query.issued

---------------------------------------------------------------------------
(* ui/tabs_metrics.py: render(). *)

\* nlargest(15, ...)
TopN == 15

\* One row of the metrics table.
MetricRow(b, assignee, days) ==
    [name |-> IF b.name = ABSENT THEN "" ELSE b.name,
     stage |-> IF b.stage = ABSENT THEN "" ELSE b.stage,
     assignee |-> assignee, days |-> days]

\* The loop over the fetched bundles: one row per bundle, in fetch order; a
\* call that raises ends the render.
RECURSIVE MetricRows(_, _, _)
MetricRows(bs, n, acc) ==
    IF bs = <<>> THEN Ret(acc)
    ELSE LET a == current_stage_assignee(Head(bs))
             d == days_in_current_stage(Head(bs), n)
         IN  IF a.raised THEN a
             ELSE IF d.raised THEN d
             ELSE MetricRows(Tail(bs), n,
                             Append(acc, MetricRow(Head(bs), a.val, d.val)))

RECURSIVE DaysInsertDesc(_, _)
DaysInsertDesc(sorted, r) ==
    IF sorted = <<>> THEN <<r>>
    ELSE IF Head(sorted).days >= r.days
         THEN <<Head(sorted)>> \o DaysInsertDesc(Tail(sorted), r)
         ELSE <<r>> \o sorted

\* df.sort_values("Days in Current Stage", ascending=False): rows of equal
\* value are left here in row order.
RECURSIVE SortedByDaysDesc(_)
SortedByDaysDesc(rs) ==
    IF rs = <<>> THEN <<>>
    ELSE DaysInsertDesc(SortedByDaysDesc(SubSeq(rs, 1, Len(rs) - 1)),
                        rs[Len(rs)])

\* df[df[days] >= 0].nlargest(15, days): the 15 largest values, the earlier
\* row first among equal ones.
Top(rs) ==
    LET s == SortedByDaysDesc(SelectSeq(rs, LAMBDA r : r.days >= 0)) IN
    SubSeq(s, 1, IF Len(s) < TopN THEN Len(s) ELSE TopN)

\* render() of the metrics view on the fetched bundles, at the instant n.
\* pd.to_numeric(...).fillna(-1) leaves a column of integers as it is.
metrics_render(bs, n) ==
    LET r == MetricRows(bs, n, <<>>) IN
    IF r.raised THEN r
    ELSE IF r.val = <<>>
    THEN Ret([shown |-> "info", table |-> <<>>, chart |-> <<>>])
    ELSE Ret([shown |-> "table", table |-> SortedByDaysDesc(r.val),
              chart |-> Top(r.val)])

\* What tells the bundles of the metrics view apart.
MetricFacts ==
    [createdAt : {ABSENT, "not-a-date", "2023-01-01T12:00:00Z",
                  "2023-01-03T00:00:00Z"}]

\* The bundle at place i is named "b<i>".
MetricBundlesOf(f) ==
    [i \in 1..Len(f) |->
        Bundle("b" \o ToString(i), "id" \o ToString(i), "Review", LAbsent,
               f[i].createdAt, LAbsent)]

MetricBundleLists ==
    {MetricBundlesOf(f) : f \in SeqsUpTo(MetricFacts, MaxMetricBundles)}

Render_metrics ==
    /\ arg.kind = "bundles"
    /\ op = "none"
    /\ op' = "tabs_metrics.render"
    /\ out' = metrics_render(arg.v, now)
    /\ UNCHANGED <<arg, now, fetchVars, histVars>>

\* The clock moves on between two renders.
Metrics_rerun ==
    /\ arg.kind = "bundles"
    /\ op = "tabs_metrics.render"
    /\ now < MaxNow
    /\ now' = now + 1
    /\ op' = "none"
    /\ out' = Ret(NULL)
    /\ UNCHANGED <<arg, fetchVars, histVars>>

InitMetrics ==
    /\ arg \in {Arg("bundles", l) : l \in MetricBundleLists}
    /\ now = 1
    /\ op = "none"
    /\ out = Ret(NULL)
    /\ FetchIdle /\ HistIdle

MetricsNext == Render_metrics \/ Metrics_rerun

SpecMetrics == InitMetrics /\ [][MetricsNext]_vars

\* The days-in-current-stage value the specification gives a bundle at the
\* instant n: the whole days since its last-updated instant, -1 without one.
DaysValue(b, n) ==
    LET lu == compute_last_updated(b).val IN
    IF lu.ok THEN (n - lu.t) \div DayTicks ELSE -1

\* C11 (as claimed): the metrics view shows a table of one row per bundle
\* with the bundle's days-in-current-stage value, rows of value -1 after
\* every row of a defined value, and charts the bundles of the largest
\* values >= 0, at most 15 of them: every charted value is >= 0 and no
\* uncharted value >= 0 is larger than a charted one.
C11_ChartsTopDefinedDays ==
    op = "tabs_metrics.render" =>
        /\ ~out.raised
        /\ LET t == out.val.table
               c == out.val.chart
               defined == {i \in 1..Len(arg.v) : DaysValue(arg.v[i], now) >= 0}
           IN  /\ Len(t) = Len(arg.v)
               /\ \A i \in 1..Len(arg.v) : \E j \in 1..Len(t) :
                     /\ t[j].name = arg.v[i].name
                     /\ t[j].days = DaysValue(arg.v[i], now)
               /\ \A i, j \in 1..Len(t) :
                     (t[i].days = -1 /\ t[j].days # -1) => j < i
               /\ Len(c) <= TopN
               /\ Len(c) = (IF Cardinality(defined) < TopN
                            THEN Cardinality(defined) ELSE TopN)
               /\ \A i \in 1..Len(c) : c[i].days >= 0
               /\ \A i \in 1..Len(c), j \in 1..Len(t) :
                     (t[j].days >= 0 /\ t[j].days > c[i].days) =>
                        \E k \in 1..Len(c) : c[k].name = t[j].name

---------------------------------------------------------------------------
(* ui/tabs_all_bundles.py: render(). *)

\* (b.get("name") or "").lower() on the bundle names of the model.
name_key(b) ==
    LET nm == Get(b.name) IN
    CASE ~TruthyS(nm) -> ""
      [] nm = "Beta"  -> "beta"
      [] OTHER        -> nm

\* The place of a lower-case name of the model in the order of strings.
StrOrder(k) ==
    CASE k = ""      -> 0
      [] k = "alpha" -> 1
      [] k = "beta"  -> 2
      [] k = "gamma" -> 3

RECURSIVE NameInsertAsc(_, _)
NameInsertAsc(sorted, b) ==
    IF sorted = <<>> THEN <<b>>
    ELSE IF StrOrder(name_key(Head(sorted))) <= StrOrder(name_key(b))
         THEN <<Head(sorted)>> \o NameInsertAsc(Tail(sorted), b)
         ELSE <<b>> \o sorted

\* sorted(bundles, key=...): stable, ascending.
RECURSIVE bundles_sorted(_)
bundles_sorted(bs) ==
    IF bs = <<>> THEN <<>>
    ELSE NameInsertAsc(bundles_sorted(SubSeq(bs, 1, Len(bs) - 1)), bs[Len(bs)])

\* [(s.get("stage") or {}).get("name") for s in stages if ...name]
stage_names_present(items) ==
    LET names == [i \in 1..Len(items) |-> NameOf(items[i].stage)] IN
    SelectSeq(names, LAMBDA nm : TruthyS(nm))

\* A mutant of FirstFour: the last four names are kept.
FirstFour_Last(names) ==
    IF Len(names) <= 4 THEN names ELSE SubSeq(names, Len(names) - 3, Len(names))

\* names[:4]
FirstFour(names) ==
    IF Len(names) <= 4 THEN names ELSE SubSeq(names, 1, 4)

\* s1, s2, s3, s4 = (ordered_names + ["", "", "", ""])[:4]
Padded(names) == SubSeq(names \o <<"", "", "", "">>, 1, 4)

\* The "Stage k Assignee" column.
StageAssigneeColumn(stages, sk) ==
    IF sk # "" THEN stage_assignee_for_name(stages, sk) ELSE Ret("Unassigned")

\* The row of one bundle; the State, Project Name, Policy Name and Owner
\* columns, plain copies of fields, are left out.  The entries of the row
\* are evaluated in the order of the code and the first to raise ends the
\* render.
BundleRow(b, n) ==
    LET curr  == current_stage_assignee(b)
        lu    == compute_last_updated(b)
        stages == GetList(b.stages)
    IN  IF curr.raised THEN curr
        ELSE IF lu.raised THEN lu
        ELSE IF stages.tag = "null" THEN Raise("TypeError")
        ELSE LET sn == Padded(FirstFour(order_stages_like_humans(
                                  stage_names_present(stages.items))))
                 sa == [k \in 1..4 |-> StageAssigneeColumn(stages, sn[k])]
                 br == safe_branch_from_attachments(GetList(b.attachments))
                 days == days_in_current_stage(b, n)
             IN  IF \E k \in 1..4 : sa[k].raised
                 THEN sa[CHOOSE k \in 1..4 : sa[k].raised]
                 ELSE IF br.raised THEN br
                 ELSE IF days.raised THEN days
                 ELSE Ret([name |-> IF b.name = ABSENT THEN "" ELSE b.name,
                           stage |-> IF b.stage = ABSENT THEN "" ELSE b.stage,
                           assignee |-> curr.val,
                           lastUpdated |-> isoformat(lu.val),
                           created |-> isoformat(parse_dt(Get(b.createdAt))),
                           stageNames |-> sn,
                           stageAssignees |-> [k \in 1..4 |-> sa[k].val],
                           branch |-> br.val,
                           id |-> IF b.id = ABSENT THEN "" ELSE b.id,
                           days |-> days.val])

RECURSIVE BundleRows(_, _, _)
BundleRows(bs, n, acc) ==
    IF bs = <<>> THEN Ret(acc)
    ELSE LET r == BundleRow(Head(bs), n) IN
         IF r.raised THEN r
         ELSE BundleRows(Tail(bs), n, Append(acc, r.val))

\* render() of the all-bundles view on the fetched bundles.
all_bundles_render(bs, n) ==
    IF bs = <<>> THEN Ret([shown |-> "info", rows |-> <<>>])
    ELSE LET r == BundleRows(bundles_sorted(bs), n, <<>>) IN
         IF r.raised THEN r
         ELSE Ret([shown |-> "table", rows |-> r.val])

\* The stage names of the entries of one bundle of the view.
ViewStageNames == {NULL, "Plan", "Build", "Review", "Approve", "Release"}

\* The entry at place i: its stage name, and the assignee "u<i>" or none.
ViewEntry(nm, i, named) ==
    [stage |-> IF nm = NULL THEN DAbsent ELSE Dict(nm),
     assignee |-> IF named THEN Dict("u" \o ToString(i)) ELSE DAbsent]

\* Stage lists of up to n entries: every entry has a named assignee, or
\* every other one has.
ViewStageLists(n) ==
    {LList([i \in 1..Len(ns) |-> ViewEntry(ns[i], i, all \/ i % 2 = 1)]) :
        ns \in SeqsUpTo(ViewStageNames, n), all \in BOOLEAN}

\* What tells the bundles of a list of several bundles apart.
ViewFacts ==
    [name : {NULL, "alpha", "Beta", "gamma"},
     createdAt : {ABSENT, "2023-01-01T12:00:00Z"},
     stages : {LAbsent, LList(<<ViewEntry("Plan", 1, TRUE)>>)}]

\* The bundle at place i has the identifier "id<i>".
ViewBundlesOf(f) ==
    [i \in 1..Len(f) |->
        Bundle(f[i].name, "id" \o ToString(i), "Plan", f[i].stages,
               f[i].createdAt, LAbsent)]

\* The bundle lists fetch_bundles returns to the view in the model: one
\* bundle with any stage list of up to n entries, or up to m bundles.
ViewBundleLists(n, m) ==
    {<<Bundle("Beta", "id1", "Plan", l, ABSENT, LAbsent)>> : l \in ViewStageLists(n)}
    \cup {ViewBundlesOf(f) : f \in SeqsUpTo(ViewFacts, m)}

Render_all_bundles ==
    /\ arg.kind = "bundles"
    /\ op = "none"
    /\ op' = "tabs_all_bundles.render"
    /\ out' = all_bundles_render(arg.v, now)
    /\ UNCHANGED <<arg, now, fetchVars, histVars>>

InitAllBundles ==
    /\ arg \in {Arg("bundles", l) :
                    l \in ViewBundleLists(MaxViewStages, MaxViewBundles)}
    /\ now = MaxNow
    /\ op = "none"
    /\ out = Ret(NULL)
    /\ FetchIdle /\ HistIdle

AllBundlesNext == Render_all_bundles

SpecAllBundles == InitAllBundles /\ [][AllBundlesNext]_vars

\* The places of the entries that carry a stage name no earlier entry
\* carries.
FirstPlaces(es) ==
    {i \in 1..Len(es) :
        /\ es[i].stage.tag = "dict"
        /\ es[i].stage.name \notin {ABSENT, NULL, ""}
        /\ \A j \in 1..(i - 1) :
              es[j].stage.tag # "dict" \/ es[j].stage.name # es[i].stage.name}

\* The k-th such place.
KthPlace(es, k) ==
    CHOOSE i \in FirstPlaces(es) :
        Cardinality({j \in FirstPlaces(es) : j < i}) = k - 1

---------------------------------------------------------------------------
(* Every transform function, over every record of the model. *)

InitTransforms == InitStage \/ InitTime \/ InitNames \/ InitBranch \/ InitEvent

TransformsNext ==
    \/ Apply_parse_dt
    \/ Apply_order_stages_like_humans
    \/ Reapply_order_stages_like_humans
    \/ Apply_stage_assignee_for_name
    \/ Apply_compute_last_updated
    \/ Apply_current_stage_assignee
    \/ Apply_days_in_current_stage
    \/ Apply_safe_branch_from_attachments
    \/ Apply__before_after
    \/ Apply__pull_stage_name

SpecTransforms == InitTransforms /\ [][TransformsNext]_vars

\* C3 (as claimed): every transform function returns a value, without
\* raising, for every bundle or event record, whichever of its fields are
\* absent, null, empty or populated.
C3_TransformsNeverRaise ==
    op # "none" => ~out.raised

===========================================================================
